---------------------------- MODULE Spec2Model ----------------------------
(***************************************************************************)
(* A model of the JSON lexer (src/src/tokenize.rs) and recursive-descent   *)
(* parser (src/src/parse.rs).                                              *)
(*                                                                         *)
(* Characters are Unicode scalar values (integers).  A Vec<char>, a        *)
(* String and a Vec<Token> are sequences; Rust's 0-based `v[i]` is         *)
(* At(v, i).  An index expression `v[i]` with i >= v.len() panics in Rust: *)
(* the call then returns neither Ok nor Err, which the model records as a  *)
(* result with tag "Panic".                                                *)
(***************************************************************************)
EXTENDS Integers, Sequences, FiniteSets, TLC

VARIABLES doc, input, tokens, trailing, pc, ret

vars == <<doc, input, tokens, trailing, pc, ret>>

(***************************************************************************)
(* Characters that the source names in literals.                           *)
(***************************************************************************)
LeftBraceCh == 123
RightBraceCh == 125
LeftBracketCh == 91
RightBracketCh == 93
ColonCh == 58
CommaCh == 44
QuoteCh == 34
BackslashCh == 92
MinusCh == 45
DotCh == 46
SpaceCh == 32
ZeroCh == 48
NineCh == 57
LowerA == 97
LowerB == 98
LowerE == 101
LowerF == 102
LowerL == 108
LowerN == 110
LowerR == 114
LowerS == 115
LowerT == 116
LowerU == 117
UpperA == 65
UpperF == 70
Backspace == 8
Tab == 9
LineFeed == 10
FormFeed == 12
CarriageReturn == 13
PushedForF == 18
SurrogateLo == 55296
SurrogateHi == 57343

NullStr == <<LowerN, LowerU, LowerL, LowerL>>
FalseStr == <<LowerF, LowerA, LowerL, LowerS, LowerE>>
TrueStr == <<LowerT, LowerR, LowerU, LowerE>>

At(v, i) == v[i + 1]

is_ascii_digit(c) == ZeroCh <= c /\ c <= NineCh

is_ascii_whitespace(c) == c \in {SpaceCh, Tab, LineFeed, FormFeed, CarriageReturn}

(***************************************************************************)
(* Tokens, values and errors.                                              *)
(***************************************************************************)
TokLeftBrace == [type |-> "LeftBrace"]
TokRightBrace == [type |-> "RightBrace"]
TokLeftBracket == [type |-> "LeftBracket"]
TokRightBracket == [type |-> "RightBracket"]
TokColon == [type |-> "Colon"]
TokComma == [type |-> "Comma"]
TokNull == [type |-> "Null"]
TokFalse == [type |-> "False"]
TokTrue == [type |-> "True"]
TokNumber(n) == [type |-> "Number", num |-> n]
TokString(s) == [type |-> "String", str |-> s]

ValNull == [kind |-> "Null"]
ValBoolean(b) == [kind |-> "Boolean", b |-> b]
ValNumber(n) == [kind |-> "Number", num |-> n]
ValString(s) == [kind |-> "String", str |-> s]
ValArray(a) == [kind |-> "Array", items |-> a]
ValObject(m) == [kind |-> "Object", map |-> m]

\* HashMap::new() and HashMap::insert: one entry per key, a later insert of
\* the same key replaces the value.
EmptyMap == [k \in {} |-> ValNull]
MapInsert(m, key, value) ==
    [k \in DOMAIN m \cup {key} |-> IF k = key THEN value ELSE m[k]]

UnfinishedLiteralValue == [err |-> "UnfinishedLiteralValue"]
UnclosedQuotes == [err |-> "UnclosedQuotes"]
UnexpectedEof == [err |-> "UnexpectedEof"]
CharNotRecognized(c) == [err |-> "CharNotRecognized", ch |-> c]
ParseNumberError(e) == [err |-> "ParseNumberError", cause |-> e]

UnfinishedEscape == [err |-> "UnfinishedEscape"]
InvalidHexValue == [err |-> "InvalidHexValue"]
InvalidCodePointValue == [err |-> "InvalidCodePointValue"]
ExpectedComma == [err |-> "ExpectedComma"]
ExpectedProperty == [err |-> "ExpectedProperty"]
ExpectedColon == [err |-> "ExpectedColon"]
ExpectedValue == [err |-> "ExpectedValue"]

\* ParseError::TokenizeError(e) and ParseError::ParseError(e)
WrapTokenizeError(e) == [err |-> "TokenizeError", inner |-> e]
WrapParseError(e) == [err |-> "ParseError", inner |-> e]

\* Results of the internal functions, which also move `*index`.
Ok(v, i) == [tag |-> "Ok", val |-> v, index |-> i]
Err(e) == [tag |-> "Err", err |-> e]
Panic(site) == [tag |-> "Panic", site |-> site]

(***************************************************************************)
(* str::parse::<f64>() on the text tokenize_float accumulates.  A number   *)
(* is kept as mant / 10^scale with no trailing zero in the fraction, so    *)
(* that equal values are equal records ("1.50" = "1.5", "1.0" = "1").      *)
(* Only a sign, digits and '.' are handled; the accumulated text holds     *)
(* nothing else.                                                           *)
(***************************************************************************)
RECURSIVE Normalise(_, _)
Normalise(m, sc) ==
    IF sc > 0 /\ m % 10 = 0 THEN Normalise(m \div 10, sc - 1)
    ELSE [mant |-> m, scale |-> sc]

RECURSIVE DigitsValue(_, _, _)
DigitsValue(s, k, acc) ==
    IF k > Len(s) THEN acc
    ELSE IF s[k] = DotCh THEN DigitsValue(s, k + 1, acc)
    ELSE DigitsValue(s, k + 1, acc * 10 + (s[k] - ZeroCh))

ParseFloat(s) ==
    LET signed == Len(s) > 0 /\ s[1] = MinusCh
        body == IF signed THEN Tail(s) ELSE s
        dots == {k \in 1..Len(body) : body[k] = DotCh}
        digs == {k \in 1..Len(body) : is_ascii_digit(body[k])}
        frac == IF dots = {} THEN 0
                ELSE Len(body) - (CHOOSE k \in dots : TRUE)
        n == Normalise(DigitsValue(body, 1, 0), frac)
    IN  IF Len(s) = 0 THEN [ok |-> FALSE, cause |-> "Empty"]
        ELSE IF Cardinality(dots) > 1 \/ digs = {}
                \/ Cardinality(dots) + Cardinality(digs) # Len(body)
             THEN [ok |-> FALSE, cause |-> "Invalid"]
        ELSE [ok |-> TRUE,
              num |-> IF signed THEN [n EXCEPT !.mant = 0 - n.mant] ELSE n]

(***************************************************************************)
(* tokenize.rs                                                             *)
(***************************************************************************)
RECURSIVE tokenize_float_loop(_, _, _, _)
tokenize_float_loop(chars, index, unparsed, has_decimal) ==
    IF index < Len(chars)
    THEN LET ch == At(chars, index)
         IN  IF is_ascii_digit(ch)
             THEN tokenize_float_loop(chars, index + 1, Append(unparsed, ch),
                                      has_decimal)
             ELSE IF ch = DotCh /\ ~has_decimal
             THEN tokenize_float_loop(chars, index + 1, Append(unparsed, ch),
                                      TRUE)
             ELSE [unparsed |-> unparsed, index |-> index]
    ELSE [unparsed |-> unparsed, index |-> index]

tokenize_float(chars, index) ==
    LET l == tokenize_float_loop(chars, index, <<>>, FALSE)
        p == ParseFloat(l.unparsed)
    IN  IF p.ok THEN Ok(TokNumber(p.num), l.index)
        ELSE Err(ParseNumberError(p.cause))

LiteralToken(str) ==
    IF str = NullStr THEN Ok(TokNull, 0)
    ELSE IF str = FalseStr THEN Ok(TokFalse, 0)
    ELSE IF str = TrueStr THEN Ok(TokTrue, 0)
    ELSE Err(UnfinishedLiteralValue)

RECURSIVE tokenize_literal_loop(_, _, _, _)
tokenize_literal_loop(str, chars, index, k) ==
    IF k > Len(str)
    THEN LET t == LiteralToken(str)
         IN  IF t.tag = "Ok" THEN Ok(t.val, index) ELSE t
    ELSE IF index >= Len(chars) THEN Panic("tokenize_literal")
    ELSE IF At(chars, index) # str[k] THEN Err(UnfinishedLiteralValue)
    ELSE tokenize_literal_loop(str, chars, index + 1, k + 1)

tokenize_literal(str, chars, index) ==
    tokenize_literal_loop(str, chars, index, 1)

\* tokenize_string with `'\\' => is_escaping = true`: a backslash sets the
\* flag instead of flipping it
RECURSIVE tokenize_string_loop_set(_, _, _, _)
tokenize_string_loop_set(chars, index, string, is_escaping) ==
    LET i == index + 1
    IN  IF i > Len(chars) THEN Err(UnclosedQuotes)
        ELSE IF i >= Len(chars) THEN Panic("tokenize_string")
        ELSE LET ch == At(chars, i)
             IN  IF ch = QuoteCh /\ ~is_escaping
                 THEN Ok(TokString(string), i)
                 ELSE tokenize_string_loop_set(chars, i, Append(string, ch),
                                               ch = BackslashCh)

RECURSIVE tokenize_string_loop(_, _, _, _)
tokenize_string_loop(chars, index, string, is_escaping) ==
    LET i == index + 1
    IN  IF i > Len(chars) THEN Err(UnclosedQuotes)
        ELSE IF i >= Len(chars) THEN Panic("tokenize_string")
        ELSE LET ch == At(chars, i)
             IN  IF ch = QuoteCh /\ ~is_escaping
                 THEN Ok(TokString(string), i)
                 ELSE tokenize_string_loop(
                          chars, i, Append(string, ch),
                          IF ch = BackslashCh THEN ~is_escaping ELSE FALSE)

tokenize_string(chars, index) ==
    tokenize_string_loop(chars, index, <<>>, FALSE)

RECURSIVE skip_whitespace(_, _)
skip_whitespace(chars, index) ==
    IF index >= Len(chars) THEN Panic("make_token")
    ELSE IF ~is_ascii_whitespace(At(chars, index)) THEN Ok(At(chars, index), index)
    ELSE IF index + 1 >= Len(chars) THEN Err(UnexpectedEof)
    ELSE skip_whitespace(chars, index + 1)

make_token(chars, index0) ==
    LET w == skip_whitespace(chars, index0)
    IN  IF w.tag # "Ok" THEN w
        ELSE LET ch == w.val
                 index == w.index
             IN  CASE ch = LeftBraceCh -> Ok(TokLeftBrace, index)
                   [] ch = RightBraceCh -> Ok(TokRightBrace, index)
                   [] ch = LeftBracketCh -> Ok(TokLeftBracket, index)
                   [] ch = RightBracketCh -> Ok(TokRightBracket, index)
                   [] ch = ColonCh -> Ok(TokColon, index)
                   [] ch = CommaCh -> Ok(TokComma, index)
                   [] ch = LowerN -> tokenize_literal(NullStr, chars, index)
                   [] ch = LowerF -> tokenize_literal(FalseStr, chars, index)
                   [] ch = LowerT -> tokenize_literal(TrueStr, chars, index)
                   [] ch = QuoteCh -> tokenize_string(chars, index)
                   [] is_ascii_digit(ch) \/ ch = MinusCh ->
                          tokenize_float(chars, index)
                   [] OTHER -> Err(CharNotRecognized(ch))

RECURSIVE tokenize_loop(_, _, _)
tokenize_loop(chars, index, toks) ==
    IF index < Len(chars)
    THEN LET r == make_token(chars, index)
         IN  IF r.tag = "Ok"
             THEN tokenize_loop(chars, r.index + 1, Append(toks, r.val))
             ELSE r
    ELSE [tag |-> "Ok", val |-> toks]

tokenize(chars) == tokenize_loop(chars, 0, <<>>)

(***************************************************************************)
(* parse.rs.  The parser's results also carry `read`, the index of the     *)
(* last token the call read through the cursor.                            *)
(***************************************************************************)
POk(v, i, rd) == [tag |-> "Ok", val |-> v, index |-> i, read |-> rd]
PErr(e, rd) == [tag |-> "Err", err |-> e, read |-> rd]

\* char::to_digit(16); -1 stands for None
to_digit16(c) ==
    IF is_ascii_digit(c) THEN c - ZeroCh
    ELSE IF LowerA <= c /\ c <= LowerF THEN c - LowerA + 10
    ELSE IF UpperA <= c /\ c <= UpperF THEN c - UpperA + 10
    ELSE 0 - 1

\* char::from_u32 of a value below 2^16: None exactly for a surrogate
from_u32_ok(n) == ~(SurrogateLo <= n /\ n <= SurrogateHi)

RECURSIVE unicode_escape(_, _, _, _)
unicode_escape(inp, k, i, sum) ==
    IF i = 4
    THEN IF from_u32_ok(sum) THEN [tag |-> "Ok", val |-> sum]
         ELSE Err(InvalidCodePointValue)
    ELSE IF k > Len(inp) THEN Err(UnfinishedEscape)
    ELSE LET digit == to_digit16(inp[k])
         IN  IF digit < 0 THEN Err(InvalidHexValue)
             ELSE unicode_escape(inp, k + 1, i + 1, sum + (16 ^ (3 - i)) * digit)

\* the single-character arms of the match in parse_string
unescape(next_char) ==
    CASE next_char = QuoteCh -> QuoteCh
      [] next_char = BackslashCh -> BackslashCh
      [] next_char = LowerB -> Backspace
      [] next_char = LowerF -> PushedForF
      [] next_char = LowerN -> LineFeed
      [] next_char = LowerR -> CarriageReturn
      [] next_char = LowerT -> Tab
      [] OTHER -> next_char

RECURSIVE parse_string_loop(_, _, _, _)
parse_string_loop(inp, k, output, is_escaping) ==
    IF k > Len(inp) THEN [tag |-> "Ok", val |-> ValString(output)]
    ELSE LET next_char == inp[k]
         IN  IF is_escaping
             THEN IF next_char = LowerU
                  THEN LET u == unicode_escape(inp, k + 1, 0, 0)
                       IN  IF u.tag = "Ok"
                           THEN parse_string_loop(inp, k + 5,
                                                  Append(output, u.val), FALSE)
                           ELSE u
                  ELSE parse_string_loop(inp, k + 1,
                                         Append(output, unescape(next_char)),
                                         FALSE)
             ELSE IF next_char = BackslashCh
             THEN parse_string_loop(inp, k + 1, output, TRUE)
             ELSE parse_string_loop(inp, k + 1, Append(output, next_char), FALSE)

parse_string(inp) == parse_string_loop(inp, 1, <<>>, FALSE)

RECURSIVE parse_tokens(_, _)
RECURSIVE parse_array_loop(_, _, _)
RECURSIVE parse_object_loop(_, _, _)

\* parse_array reading one token past the closing `]` before it returns, to
\* require a `,` or a closing bracket or brace after a nested array
RECURSIVE parse_array_loop_peek(_, _, _)
parse_array_loop_peek(toks, index0, array) ==
    LET index == index0 + 1
        close(v, at) ==
            IF at + 1 < Len(toks)
               /\ At(toks, at + 1) \notin {TokComma, TokRightBracket, TokRightBrace}
            THEN PErr(ExpectedComma, at + 1)
            ELSE POk(v, at + 1, IF at + 1 < Len(toks) THEN at + 1 ELSE at)
    IN  IF index >= Len(toks) THEN Panic("parse_array")
        ELSE IF At(toks, index) = TokRightBracket
        THEN close(ValArray(array), index)
        ELSE LET r == parse_tokens(toks, index)
             IN  IF r.tag # "Ok" THEN r
                 ELSE IF r.index >= Len(toks) THEN Panic("parse_array")
                 ELSE LET token == At(toks, r.index)
                          pushed == Append(array, r.val)
                      IN  CASE token = TokRightBracket ->
                                   close(ValArray(pushed), r.index)
                            [] token = TokComma ->
                                   parse_array_loop_peek(toks, r.index, pushed)
                            [] OTHER -> PErr(ExpectedComma, r.index)

parse_array_loop(toks, index0, array) ==
    LET index == index0 + 1
    IN  IF index >= Len(toks) THEN Panic("parse_array")
        ELSE IF At(toks, index) = TokRightBracket
        THEN POk(ValArray(array), index + 1, index)
        ELSE LET r == parse_tokens(toks, index)
             IN  IF r.tag # "Ok" THEN r
                 ELSE IF r.index >= Len(toks) THEN Panic("parse_array")
                 ELSE LET token == At(toks, r.index)
                          pushed == Append(array, r.val)
                      IN  CASE token = TokRightBracket ->
                                   POk(ValArray(pushed), r.index + 1, r.index)
                            [] token = TokComma ->
                                   parse_array_loop(toks, r.index, pushed)
                            [] OTHER -> PErr(ExpectedComma, r.index)

parse_array(toks, index) == parse_array_loop(toks, index, <<>>)

parse_object_loop(toks, index0, map) ==
    LET index == index0 + 1
    IN  IF index >= Len(toks) THEN Panic("parse_object")
        ELSE IF At(toks, index) = TokRightBrace
        THEN POk(ValObject(map), index + 1, index)
        ELSE IF At(toks, index).type = "String"
        THEN LET s == At(toks, index).str
                 colon == index + 1
             IN  IF colon >= Len(toks) THEN Panic("parse_object")
                 ELSE IF TokColon = At(toks, colon)
                 THEN LET r == parse_tokens(toks, colon + 1)
                      IN  IF r.tag # "Ok" THEN r
                          ELSE IF r.index >= Len(toks)
                          THEN Panic("parse_object")
                          ELSE LET inserted == MapInsert(map, s, r.val)
                                   token == At(toks, r.index)
                               IN  CASE token = TokComma ->
                                            parse_object_loop(toks, r.index,
                                                              inserted)
                                     [] token = TokRightBrace ->
                                            POk(ValObject(inserted),
                                                r.index + 1, r.index)
                                     [] OTHER -> PErr(ExpectedComma, r.index)
                 ELSE PErr(ExpectedColon, colon)
        ELSE PErr(ExpectedProperty, index)

parse_object(toks, index) == parse_object_loop(toks, index, EmptyMap)

parse_tokens(toks, index) ==
    IF index >= Len(toks) THEN Panic("parse_tokens")
    ELSE LET token == At(toks, index)
         IN  CASE token.type = "Null" -> POk(ValNull, index + 1, index)
               [] token.type = "False" ->
                      POk(ValBoolean(FALSE), index + 1, index)
               [] token.type = "True" ->
                      POk(ValBoolean(TRUE), index + 1, index)
               [] token.type = "Number" ->
                      POk(ValNumber(token.num), index + 1, index)
               [] token.type = "String" ->
                      LET s == parse_string(token.str)
                      IN  IF s.tag = "Ok" THEN POk(s.val, index + 1, index)
                          ELSE PErr(s.err, index)
               [] token.type = "LeftBrace" -> parse_object(toks, index)
               [] token.type = "LeftBracket" -> parse_array(toks, index)
               [] OTHER -> PErr(ExpectedValue, index)

\* `?` converts the error with From and returns it; a panic unwinds.
parse(inp) ==
    LET t == tokenize(inp)
    IN  IF t.tag = "Err" THEN Err(WrapTokenizeError(t.err))
        ELSE IF t.tag = "Panic" THEN t
        ELSE LET v == parse_tokens(t.val, 0)
             IN  IF v.tag = "Err" THEN Err(WrapParseError(v.err))
                 ELSE IF v.tag = "Panic" THEN v
                 ELSE [tag |-> "Ok", val |-> v.val]

(***************************************************************************)
(* Bounds of the inputs.                                                   *)
(***************************************************************************)
MaxStrLen == 6
MaxNumLen == 4
MaxTail == 2
MaxElems == 3
MaxProps == 2
MaxRawLen == 3
MaxTrailing == 1

SeqsUpTo(S, n) == UNION {[1..k -> S] : k \in 0..n}

Prefixes(T) == UNION {{SubSeq(t, 1, n) : n \in 0..Len(t)} : t \in T}

(***************************************************************************)
(* Input texts of the lexer: texts around string literals, around numbers  *)
(* and around the three keywords.                                          *)
(***************************************************************************)
Digit(d) == ZeroCh + d

StringTexts == SeqsUpTo({QuoteCh, BackslashCh, LowerA, CommaCh}, MaxStrLen)

NumberExamples ==
    { <<MinusCh, Digit(1), Digit(2), Digit(3)>>,
      <<Digit(1), Digit(2), Digit(3)>>,
      <<Digit(1), Digit(2), Digit(3), DotCh, Digit(4), Digit(5), Digit(6)>>,
      <<MinusCh, Digit(1), Digit(2), Digit(3), DotCh, Digit(4), Digit(5),
        Digit(6)>> }

NumberTexts ==
    SeqsUpTo({MinusCh, DotCh, ZeroCh, Digit(1), NineCh}, MaxNumLen)
        \cup NumberExamples

KeywordTexts ==
    { p \o t : p \in Prefixes({NullStr, FalseStr, TrueStr}) \ {<<>>},
               t \in SeqsUpTo({LowerE, CommaCh, SpaceCh}, MaxTail) }

LexInputs == StringTexts \cup NumberTexts \cup KeywordTexts

(***************************************************************************)
(* Well-formed JSON documents as written in a text: scalars, arrays of up  *)
(* to MaxElems elements and objects of up to MaxProps properties (a key    *)
(* may repeat).  RenderText writes a document as JSON text without white   *)
(* space, RenderTokens as the token sequence of that text, and Expected is *)
(* the Value the document denotes.                                         *)
(***************************************************************************)
SrcArray(items) == [kind |-> "SrcArray", items |-> items]
SrcObject(props) == [kind |-> "SrcObject", props |-> props]

ScalarDocs ==
    { ValNull, ValBoolean(TRUE), ValBoolean(FALSE),
      ValNumber([mant |-> 1, scale |-> 0]), ValString(<<LowerA>>),
      ValString(<<LowerB>>) }

Keys == { <<LowerA>>, <<LowerB>> }

NestedDocs ==
    { SrcArray(<<>>),
      SrcObject(<<[key |-> <<LowerA>>,
                   value |-> ValNumber([mant |-> 1, scale |-> 0])]>>) }

ElementDocs == ScalarDocs \cup NestedDocs

ArrayDocs == { SrcArray(items) : items \in SeqsUpTo(ElementDocs, MaxElems) }

ObjectDocs ==
    { SrcObject(props) :
        props \in SeqsUpTo([key : Keys, value : ElementDocs], MaxProps) }

Docs == ScalarDocs \cup ArrayDocs \cup ObjectDocs

RECURSIVE RenderText(_)
RECURSIVE RenderItems(_, _)
RECURSIVE RenderProps(_, _)

RenderItems(items, k) ==
    IF k > Len(items) THEN <<>>
    ELSE (IF k > 1 THEN <<CommaCh>> ELSE <<>>) \o RenderText(items[k])
             \o RenderItems(items, k + 1)

RenderProps(props, k) ==
    IF k > Len(props) THEN <<>>
    ELSE (IF k > 1 THEN <<CommaCh>> ELSE <<>>)
             \o <<QuoteCh>> \o props[k].key \o <<QuoteCh, ColonCh>>
             \o RenderText(props[k].value) \o RenderProps(props, k + 1)

RenderText(d) ==
    CASE d.kind = "Null" -> NullStr
      [] d.kind = "Boolean" -> IF d.b THEN TrueStr ELSE FalseStr
      [] d.kind = "Number" -> <<Digit(d.num.mant)>>
      [] d.kind = "String" -> <<QuoteCh>> \o d.str \o <<QuoteCh>>
      [] d.kind = "SrcArray" ->
             <<LeftBracketCh>> \o RenderItems(d.items, 1) \o <<RightBracketCh>>
      [] d.kind = "SrcObject" ->
             <<LeftBraceCh>> \o RenderProps(d.props, 1) \o <<RightBraceCh>>

RECURSIVE RenderTokens(_)
RECURSIVE RenderItemTokens(_, _)
RECURSIVE RenderPropTokens(_, _)

RenderItemTokens(items, k) ==
    IF k > Len(items) THEN <<>>
    ELSE (IF k > 1 THEN <<TokComma>> ELSE <<>>) \o RenderTokens(items[k])
             \o RenderItemTokens(items, k + 1)

RenderPropTokens(props, k) ==
    IF k > Len(props) THEN <<>>
    ELSE (IF k > 1 THEN <<TokComma>> ELSE <<>>)
             \o <<TokString(props[k].key), TokColon>>
             \o RenderTokens(props[k].value) \o RenderPropTokens(props, k + 1)

RenderTokens(d) ==
    CASE d.kind = "Null" -> <<TokNull>>
      [] d.kind = "Boolean" -> IF d.b THEN <<TokTrue>> ELSE <<TokFalse>>
      [] d.kind = "Number" -> <<TokNumber(d.num)>>
      [] d.kind = "String" -> <<TokString(d.str)>>
      [] d.kind = "SrcArray" ->
             <<TokLeftBracket>> \o RenderItemTokens(d.items, 1)
                 \o <<TokRightBracket>>
      [] d.kind = "SrcObject" ->
             <<TokLeftBrace>> \o RenderPropTokens(d.props, 1)
                 \o <<TokRightBrace>>

RECURSIVE Expected(_)
Expected(d) ==
    CASE d.kind = "SrcArray" ->
             ValArray([k \in 1..Len(d.items) |-> Expected(d.items[k])])
      [] d.kind = "SrcObject" ->
             ValObject(
                 [key \in {d.props[k].key : k \in 1..Len(d.props)} |->
                     LET last == CHOOSE k \in 1..Len(d.props) :
                                   /\ d.props[k].key = key
                                   /\ \A j \in (k + 1)..Len(d.props) :
                                          d.props[j].key # key
                     IN  Expected(d.props[last].value)])
      [] OTHER -> d

\* the text of an array or object with a comma put before its closing bracket
WithTrailingComma(text) ==
    SubSeq(text, 1, Len(text) - 1) \o <<CommaCh, text[Len(text)]>>

\* the texts written from document d: its text, every truncation of it and,
\* for a non-empty array or object, its text with a trailing comma
DocInputs(d) ==
    LET text == RenderText(d)
    IN  Prefixes({text})
            \cup IF d.kind \in {"SrcArray", "SrcObject"} /\ Len(text) > 2
                 THEN {WithTrailingComma(text)}
                 ELSE {}

(***************************************************************************)
(* Token sequences handed to parse_tokens: the tokens of a document, with  *)
(* up to MaxTrailing further tokens after them, and single String tokens   *)
(* whose raw content holds escapes.                                        *)
(***************************************************************************)
DocTokens == { RenderTokens(d) : d \in Docs }

Trailings ==
    SeqsUpTo({TokComma, TokRightBracket, TokNull}, MaxTrailing)

EscapeTexts ==
    SeqsUpTo({BackslashCh, QuoteCh, LowerB, LowerF, LowerN, LowerR, LowerT,
              LowerE}, MaxRawLen)

UnicodeEscapeTexts ==
    { <<BackslashCh, LowerU>> \o h :
        h \in SeqsUpTo({ZeroCh, Digit(1), Digit(4), Digit(8), UpperA + 3,
                        LowerS}, 4) }

RawTokens == { <<TokString(raw)>> : raw \in EscapeTexts \cup UnicodeEscapeTexts }

(***************************************************************************)
(* The state: the arguments of a call and, once it has run, its result.    *)
(* `input` is the text given to tokenize or parse, and `doc` the document  *)
(* it was written from (NoDoc for the lexer's texts); `tokens \o trailing` *)
(* is the vector given to parse_tokens with the cursor at 0.               *)
(***************************************************************************)
NoResult == [tag |-> "None"]
NoDoc == [kind |-> "None"]

InitLex ==
    /\ doc = NoDoc
    /\ input \in LexInputs
    /\ tokens = <<>>
    /\ trailing = <<>>
    /\ pc = "start"
    /\ ret = NoResult

InitDoc ==
    /\ doc \in Docs
    /\ input \in DocInputs(doc)
    /\ tokens = <<>>
    /\ trailing = <<>>
    /\ pc = "start"
    /\ ret = NoResult

InitTokens ==
    /\ doc = NoDoc
    /\ input = <<>>
    /\ tokens \in DocTokens \cup RawTokens
    /\ trailing \in Trailings
    /\ pc = "start"
    /\ ret = NoResult

Tokenize ==
    /\ pc = "start"
    /\ ret' = tokenize(input)
    /\ pc' = "tokenize"
    /\ UNCHANGED <<doc, input, tokens, trailing>>

Parse ==
    /\ pc = "start"
    /\ ret' = parse(input)
    /\ pc' = "parse"
    /\ UNCHANGED <<doc, input, tokens, trailing>>

ParseTokens ==
    /\ pc = "start"
    /\ ret' = parse_tokens(tokens \o trailing, 0)
    /\ pc' = "parse_tokens"
    /\ UNCHANGED <<doc, input, tokens, trailing>>

\* make_token's call of tokenize_string for a text that opens with a quote
TokenizeString ==
    /\ pc = "start"
    /\ Len(input) > 0
    /\ input[1] = QuoteCh
    /\ ret' = tokenize_string(input, 0)
    /\ pc' = "tokenize_string"
    /\ UNCHANGED <<doc, input, tokens, trailing>>

NextText == Tokenize \/ Parse \/ TokenizeString

SpecLex == InitLex /\ [][NextText]_vars

SpecDoc == InitDoc /\ [][NextText]_vars

SpecTokens == InitTokens /\ [][ParseTokens]_vars

(***************************************************************************)
(* Notions the claims are stated with.                                     *)
(***************************************************************************)
Result(v) == [tag |-> "Ok", val |-> v]

\* the number of consecutive backslashes right before position k of s
RECURSIVE BackslashRun(_, _)
BackslashRun(s, k) ==
    IF k > 1 /\ s[k - 1] = BackslashCh THEN 1 + BackslashRun(s, k - 1) ELSE 0

\* the positions after the opening quote that hold an unescaped quote
ClosingQuotes(s) ==
    {k \in 2..Len(s) : s[k] = QuoteCh /\ BackslashRun(s, k) % 2 = 0}

FirstClosingQuote(s) ==
    CHOOSE k \in ClosingQuotes(s) : \A j \in ClosingQuotes(s) : k <= j

OpensString(s) == Len(s) > 0 /\ s[1] = QuoteCh

\* -?[0-9]+(\.[0-9]+)?
IsDecimal(s) ==
    LET body == IF Len(s) > 0 /\ s[1] = MinusCh THEN Tail(s) ELSE s
    IN  /\ Len(body) > 0
        /\ is_ascii_digit(body[1])
        /\ is_ascii_digit(body[Len(body)])
        /\ \A k \in 1..Len(body) : is_ascii_digit(body[k]) \/ body[k] = DotCh
        /\ Cardinality({k \in 1..Len(body) : body[k] = DotCh}) <= 1

DecimalValue(s) == ParseFloat(s).num

StartsWith(s, p) == Len(s) >= Len(p) /\ SubSeq(s, 1, Len(p)) = p

KeywordOf(c) ==
    CASE c = LowerN -> NullStr [] c = LowerF -> FalseStr [] c = LowerT -> TrueStr

KeywordToken(c) ==
    CASE c = LowerN -> TokNull [] c = LowerF -> TokFalse [] c = LowerT -> TokTrue

\* JSON's two-character escapes
StandardEscape(c) ==
    CASE c = LowerB -> Backspace
      [] c = LowerF -> FormFeed
      [] c = LowerN -> LineFeed
      [] c = LowerR -> CarriageReturn
      [] c = LowerT -> Tab
      [] OTHER -> c

RECURSIVE Decoded(_, _)
Decoded(raw, k) ==
    IF k > Len(raw) THEN <<>>
    ELSE IF raw[k] = BackslashCh
    THEN IF k = Len(raw) THEN <<>>
         ELSE <<StandardEscape(raw[k + 1])>> \o Decoded(raw, k + 2)
    ELSE <<raw[k]>> \o Decoded(raw, k + 1)

(***************************************************************************)
(* C1: the parse of the text of a well-formed array is the array of its    *)
(* parsed elements in source order.                                        *)
(***************************************************************************)
C1_ArrayInSourceOrder ==
    pc = "parse" /\ doc.kind = "SrcArray" /\ input = RenderText(doc)
        => ret = Result(Expected(doc))

(***************************************************************************)
(* C2: the parse of the text of an object with a comma before its closing  *)
(* brace fails with ExpectedProperty.                                      *)
(***************************************************************************)
C2_TrailingCommaRejected ==
    /\ pc = "parse"
    /\ doc.kind = "SrcObject"
    /\ Len(doc.props) > 0
    /\ input = WithTrailingComma(RenderText(doc))
    => ret = Err(WrapParseError(ExpectedProperty))

(***************************************************************************)
(* C3: tokenize of a text that opens a string literal and ends before an   *)
(* unescaped closing quote returns Err(UnclosedQuotes), without an         *)
(* out-of-range read.                                                      *)
(***************************************************************************)
C3_UnclosedQuotes ==
    pc = "tokenize" /\ OpensString(input) /\ ClosingQuotes(input) = {}
        => ret = Err(UnclosedQuotes)

(***************************************************************************)
(* C4: tokenize of a text matching -?[0-9]+(\.[0-9]+)? is one Number token *)
(* with the value of the whole text, and parse gives that Value::Number.   *)
(***************************************************************************)
C4_DecimalNumber ==
    IsDecimal(input) =>
        /\ pc = "tokenize" => ret = Result(<<TokNumber(DecimalValue(input))>>)
        /\ pc = "parse" => ret = Result(ValNumber(DecimalValue(input)))

(***************************************************************************)
(* C5: on a text that starts with n, f or t, tokenize yields the keyword's *)
(* token only when the text spells the keyword there, and returns          *)
(* Err(UnfinishedLiteralValue) otherwise, also when the text ends inside   *)
(* the keyword.                                                            *)
(***************************************************************************)
C5_KeywordOrUnfinished ==
    pc = "tokenize" /\ Len(input) > 0 /\ input[1] \in {LowerN, LowerF, LowerT}
        => IF StartsWith(input, KeywordOf(input[1]))
           THEN ret.tag = "Ok" => ret.val[1] = KeywordToken(input[1])
           ELSE ret = Err(UnfinishedLiteralValue)

(***************************************************************************)
(* C6: parse returns Ok or an error for every text; in particular, when    *)
(* the text tokenizes, the parser's cursor never reads outside the token   *)
(* sequence.                                                               *)
(***************************************************************************)
C6_ParseNeverReadsOutside ==
    pc = "parse" /\ tokenize(input).tag = "Ok" => ret.tag \in {"Ok", "Err"}

(***************************************************************************)
(* C7: decoding a String token whose raw content holds no \u escape maps   *)
(* each two-character escape to JSON's character for it (\f to U+000C),    *)
(* and copies every other character.                                       *)
(***************************************************************************)
C7_StandardEscapes ==
    pc = "parse_tokens" /\ tokens \in {<<TokString(raw)>> : raw \in EscapeTexts}
        => /\ ret.tag = "Ok"
           /\ ret.val = ValString(Decoded(tokens[1].str, 1))

(***************************************************************************)
(* C8: the parse of the text of a well-formed object is the object with    *)
(* one entry per distinct key, each holding the value of the key's last    *)
(* occurrence.                                                             *)
(***************************************************************************)
C8_LastKeyWins ==
    pc = "parse" /\ doc.kind = "SrcObject" /\ input = RenderText(doc)
        => ret = Result(Expected(doc))

(***************************************************************************)
(* C9: tokenize_string ends the literal at the first quote after the       *)
(* opening one that an even number of backslashes precedes; the token's    *)
(* content is the characters strictly between the two quotes, undecoded;   *)
(* and tokenize goes on with the character right after the closing quote.  *)
(***************************************************************************)
C9_StringEndsAtFirstUnescapedQuote ==
    OpensString(input) /\ ClosingQuotes(input) # {} =>
        LET close == FirstClosingQuote(input)
            content == SubSeq(input, 2, close - 1)
            rest == tokenize(SubSeq(input, close + 1, Len(input)))
        IN  /\ pc = "tokenize_string" =>
                ret = Ok(TokString(content), close - 1)
            /\ pc = "tokenize" =>
                IF rest.tag = "Ok"
                THEN ret = Result(<<TokString(content)>> \o rest.val)
                ELSE ret = rest

C9_Witness ==
    /\ pc = "tokenize"
    /\ input = <<QuoteCh, BackslashCh, QuoteCh, LowerA, QuoteCh, CommaCh>>
    /\ ret = Result(<<TokString(<<BackslashCh, QuoteCh, LowerA>>), TokComma>>)

(***************************************************************************)
(* C10: parse_tokens on the tokens of one value followed by further tokens *)
(* returns what it returns on the value's tokens alone, reads none of the  *)
(* further tokens and, when it returns a value, leaves the cursor at the   *)
(* length of the value's tokens.                                           *)
(***************************************************************************)
C10_TrailingTokensIgnored ==
    pc = "parse_tokens" =>
        /\ ret = parse_tokens(tokens, 0)
        /\ ret.tag \in {"Ok", "Err"}
        /\ ret.read < Len(tokens)
        /\ ret.tag = "Ok" => ret.index = Len(tokens)

C10_Witness ==
    /\ pc = "parse_tokens"
    /\ tokens = <<TokLeftBracket, TokNull, TokComma, TokTrue, TokRightBracket>>
    /\ trailing = <<TokRightBracket>>
    /\ ret.tag = "Ok"
    /\ ret.val = ValArray(<<ValNull, ValBoolean(TRUE)>>)

=============================================================================
